---------------------------- MODULE Spec2Model ----------------------------
(***************************************************************************)
(* Model of src/components/payroll/PayrollEditModal.tsx: the payroll       *)
(* create/edit dialog.  Strings are sequences of one-character strings so  *)
(* that formatting, parsing, split, replace and padStart are computed, not *)
(* assumed.  Instants are minutes since 1970-01-01T00:00Z (the millisecond *)
(* resolution of Date is not needed by any handler).  A timezone offset is *)
(* minutes east of UTC.  The locale is English: toLocaleString with        *)
(* { month: 'long', year: 'numeric' } yields "<Month> <Year>".             *)
(* Amounts are integers (no input of the model has a fractional part).     *)
(***************************************************************************)
EXTENDS Integers, Sequences, FiniteSets, TLC

(***************************************************************************)
(* Bounds                                                                  *)
(***************************************************************************)
\* number of calendar years, from 2025 on, whose months the conversions see
NumYears == 2
\* employee ids offered by the caller are 1..MaxEmployeeId
MaxEmployeeId == 2

Years == 2025..(2025 + NumYears - 1)
\* calendar years an instant of the model can fall in
CalYears == 2024..(2025 + NumYears)

(***************************************************************************)
(* JavaScript values                                                       *)
(***************************************************************************)
\* a JS number is <<n>>; NaN is the empty tuple
NaN == << >>
Num(n) == << n >>
\* !v for a number v
Falsy(v) == v = NaN \/ v[1] = 0
\* v || 0 for a number v
OrZero(v) == IF Falsy(v) THEN 0 ELSE v[1]

DigitChars == <<"0","1","2","3","4","5","6","7","8","9">>
IsDigit(c) == \E i \in 1..10 : DigitChars[i] = c
DigitVal(c) == (CHOOSE i \in 1..10 : DigitChars[i] = c) - 1

RECURSIVE NatToStr(_)
NatToStr(n) == IF n < 10 THEN << DigitChars[n + 1] >>
               ELSE NatToStr(n \div 10) \o << DigitChars[(n % 10) + 1] >>
\* String(n) / template-literal interpolation of an integer
String(n) == IF n < 0 THEN <<"-">> \o NatToStr(0 - n) ELSE NatToStr(n)

\* the longest prefix of s made of digits
RECURSIVE DigitsPrefix(_)
DigitsPrefix(s) == IF s = << >> \/ ~IsDigit(Head(s)) THEN << >>
                   ELSE << Head(s) >> \o DigitsPrefix(Tail(s))
RECURSIVE DigitsValue(_, _)
DigitsValue(s, acc) == IF s = << >> THEN acc
                       ELSE DigitsValue(Tail(s), acc * 10 + DigitVal(Head(s)))
RECURSIVE TrimStart(_)
TrimStart(s) == IF s # << >> /\ Head(s) = " " THEN TrimStart(Tail(s)) ELSE s
\* the number read from the digits d under the sign; NaN when d is empty
SignedValue(neg, d) ==
    IF d = << >> THEN NaN
    ELSE Num(IF neg THEN 0 - DigitsValue(d, 0) ELSE DigitsValue(d, 0))
\* optional sign, then leading digits, of a text without leading blanks
SignedDigits(t) ==
    IF t # << >> /\ Head(t) \in {"-", "+"}
    THEN SignedValue(Head(t) = "-", DigitsPrefix(Tail(t)))
    ELSE SignedValue(FALSE, DigitsPrefix(t))
\* leading blanks are skipped
SignedPrefix(s) == SignedDigits(TrimStart(s))
\* parseInt(s, 10)
parseInt(s) == SignedPrefix(s)
\* parseFloat(s), on texts without fraction or exponent
parseFloat(s) == SignedPrefix(s)

\* s.split(sep) for a one-character separator
\* s.indexOf(c), from 1; 0 when c does not occur
RECURSIVE IndexFrom(_, _, _)
IndexFrom(s, c, i) == IF i > Len(s) THEN 0
                      ELSE IF s[i] = c THEN i ELSE IndexFrom(s, c, i + 1)
IndexOf(s, c) == IndexFrom(s, c, 1)
RECURSIVE Split(_, _)
SplitAt(s, sep, k) ==
    IF k = 0 THEN << s >>
    ELSE << SubSeq(s, 1, k - 1) >> \o Split(SubSeq(s, k + 1, Len(s)), sep)
Split(s, sep) == SplitAt(s, sep, IndexOf(s, sep))
\* s.replace(a, b) with string arguments: the first occurrence only
ReplaceAt(s, k, b) == IF k = 0 THEN s ELSE [s EXCEPT ![k] = b]
ReplaceFirst(s, a, b) == ReplaceAt(s, IndexOf(s, a), b)
\* s.padStart(2, '0')
PadStart2(s) == IF Len(s) < 2 THEN <<"0">> \o s ELSE s

(***************************************************************************)
(* Date                                                                    *)
(***************************************************************************)
MonthNames ==
    << <<"J","a","n","u","a","r","y">>,
       <<"F","e","b","r","u","a","r","y">>,
       <<"M","a","r","c","h">>,
       <<"A","p","r","i","l">>,
       <<"M","a","y">>,
       <<"J","u","n","e">>,
       <<"J","u","l","y">>,
       <<"A","u","g","u","s","t">>,
       <<"S","e","p","t","e","m","b","e","r">>,
       <<"O","c","t","o","b","e","r">>,
       <<"N","o","v","e","m","b","e","r">>,
       <<"D","e","c","e","m","b","e","r">> >>

IsLeap(y) == (y % 4 = 0 /\ y % 100 # 0) \/ y % 400 = 0
DaysInMonth(y, m) == IF m = 2 THEN (IF IsLeap(y) THEN 29 ELSE 28)
                     ELSE IF m \in {4, 6, 9, 11} THEN 30 ELSE 31
\* days from 1970-01-01 to the first of January of year y
LeapsBefore(y) == ((y - 1) \div 4) - ((y - 1) \div 100) + ((y - 1) \div 400)
DaysBeforeYear(y) == 365 * (y - 1970) + LeapsBefore(y) - LeapsBefore(1970)
\* days from the first of January to the first of month m (1..12) of year y
DaysBeforeMonth(y, m) ==
    <<0, 31, 59, 90, 120, 151, 181, 212, 243, 273, 304, 334>>[m]
      + (IF m > 2 /\ IsLeap(y) THEN 1 ELSE 0)
\* Date.UTC(y, m0, 1), m0 the zero-based month, for a four-digit year
DateUTC(y, m0) == (DaysBeforeYear(y) + DaysBeforeMonth(y, m0 + 1)) * 1440
\* the month 1..12 holding day d (from 0) of year y
MonthOfDay(y, d) ==
    CHOOSE k \in 1..12 :
        DaysBeforeMonth(y, k) <= d /\ d < DaysBeforeMonth(y, k) + DaysInMonth(y, k)
YearMonthInYear(y, day) == << y, MonthOfDay(y, day - DaysBeforeYear(y)) >>
YearMonthOfDay(day) ==
    YearMonthInYear(CHOOSE c \in CalYears :
                        DaysBeforeYear(c) <= day /\ day < DaysBeforeYear(c + 1), day)
\* <<year, month 1..12>> of the instant t read in UTC
YearMonthOf(t) == YearMonthOfDay(t \div 1440)
getUTCFullYear(t) == YearMonthOf(t)[1]
\* zero-based, as in JS
getUTCMonth(t) == YearMonthOf(t)[2] - 1
\* dt.toLocaleString('default', { month: 'long', year: 'numeric' }) read at
\* the offset off: the environment's offset, or 0 under timeZone: 'UTC'
FormatMonthYear(p) == MonthNames[p[2]] \o <<" ">> \o String(p[1])
toLocaleMonthYear(t, off) == FormatMonthYear(YearMonthOf(t + off))
\* dt.toISOString().slice(0, 7)
toISOYearMonth(t) ==
    String(getUTCFullYear(t)) \o <<"-">> \o PadStart2(String(getUTCMonth(t) + 1))
\* new Date(label).getTime(): a "<Month> <Year>" text is not an ISO form, so
\* it is read as midnight of the first of that month in LOCAL time; any
\* other text of the model is an Invalid Date
MonthNamed(w) == IF \E m \in 1..12 : MonthNames[m] = w
                 THEN CHOOSE m \in 1..12 : MonthNames[m] = w ELSE 0
ParseWords(w, tzv) ==
    IF Len(w) = 2 /\ MonthNamed(w[1]) # 0 /\ w[2] # << >> /\ DigitsPrefix(w[2]) = w[2]
    THEN Num(DateUTC(DigitsValue(w[2], 0), MonthNamed(w[1]) - 1) - tzv)
    ELSE NaN
DateParse(label, tzv) == ParseWords(Split(label, " "), tzv)

(***************************************************************************)
(* Month label/value conversion                                            *)
(***************************************************************************)
\* the label of year y and month m, the numbers read from the picker value
LabelOf(y, m, tzv, nowv) ==
    IF Falsy(y) \/ Falsy(m) THEN toLocaleMonthYear(nowv, tzv)
    ELSE toLocaleMonthYear(DateUTC(y[1], m[1] - 1), 0)
\* const [y, m] = parts.map(n => parseInt(n, 10)): m is undefined when
\* there is no second part, and !undefined holds as !NaN does
LabelOfParts(parts, tzv, nowv) ==
    LabelOf(parseInt(parts[1]),
            IF Len(parts) >= 2 THEN parseInt(parts[2]) ELSE NaN, tzv, nowv)
labelFromYm(ym, tzv, nowv) == LabelOfParts(Split(ym, "-"), tzv, nowv)

YmOfDate(dt) ==
    IF dt = NaN THEN << >>
    ELSE String(getUTCFullYear(dt[1])) \o <<"-">>
           \o PadStart2(String(getUTCMonth(dt[1]) + 1))
ymFromLabel(label, tzv) == YmOfDate(DateParse(label, tzv))

\* the sum without the floor at zero
recomputeNetUnclamped(basic, allowances, deductions) ==
    basic + allowances - deductions
recomputeNet(basic, allowances, deductions) ==
    LET v == basic + allowances - deductions IN IF v > 0 THEN v ELSE 0

(***************************************************************************)
(* Caller-supplied data                                                    *)
(***************************************************************************)
\* initialRecord absent (null or undefined): a record no caller supplies
Null == [id |-> <<"n","u","l","l">>, employeeId |-> 0 - 1, month |-> << >>,
         basicSalary |-> 0, allowances |-> 0, deductions |-> 0,
         netSalary |-> 0, status |-> "null"]
\* the value of saved when the last step did not call onSave
NoCall == [Null EXCEPT !.id = <<"n","o","n","e">>]
EmptyText == << >>

\* the employees prop, as the list of the employees' ids
EmployeeList == [i \in 1..MaxEmployeeId |-> i]

September2025 == MonthNames[9] \o <<" ","2","0","2","5">>
January2026 == MonthNames[1] \o <<" ","2","0","2","6">>
\* existing records a caller passes as initialRecord: a consistent one, one
\* whose stored netSalary is not the derived value, and one whose month
\* label is no date and whose employee is not in the list
InitialRecords ==
    { [id |-> <<"p","-","1","7">>, employeeId |-> 1, month |-> September2025,
       basicSalary |-> 5000, allowances |-> 200, deductions |-> 0,
       netSalary |-> 5200, status |-> "Paid"],
      [id |-> <<"p","-","1","8">>, employeeId |-> MaxEmployeeId, month |-> January2026,
       basicSalary |-> 5000, allowances |-> 0, deductions |-> 200,
       netSalary |-> 5000, status |-> "Pending"],
      [id |-> <<"p","-","1","9">>, employeeId |-> MaxEmployeeId + 1,
       month |-> <<"g","a","r","b","a","g","e">>,
       basicSalary |-> 0, allowances |-> 0, deductions |-> 6000,
       netSalary |-> 0, status |-> "Pending"] }

\* values of the inputs' change events
BasicTexts == { EmptyText, <<"5","0","0","0">> }
AllowancesTexts == { EmptyText, <<"a","b","c">>, <<"2","0","0">> }
DeductionsTexts == { EmptyText, <<"6","0","0","0">> }
PickerValues == { EmptyText, <<"2","0","2","5","-","0","9">>,
                  <<"2","0","2","6","-","0","1">> }
StatusValues == { "Pending", "Paid" }
\* offsets of the executing environment, minutes east of UTC
TzOffsets == { -300, 0, 330 }
\* the time of the run, 2025-09-30T20:00Z: the local date is in October at
\* the offsets east of UTC by more than four hours
Instants == { DateUTC(2025, 9) - 240 }

(***************************************************************************)
(* State                                                                   *)
(***************************************************************************)
VARIABLES isOpen, initialRecord, employees,
          record, basicInput, allowancesInput, deductionsInput, monthInput,
          saved, event, now, tz,
          convYm, convLabel, convBack, convPc

draftVars == << record, basicInput, allowancesInput, deductionsInput, monthInput >>
propVars == << isOpen, initialRecord, employees >>
envVars == << now, tz >>
convVars == << convYm, convLabel, convBack, convPc >>
vars == << propVars, draftVars, saved, event, envVars, convVars >>

emptyRecord(nowv, tzv) ==
    [id |-> <<"p","a","y","r","o","l","l","-","n","e","w","-">> \o String(nowv),
     employeeId |-> 0,
     month |-> toLocaleMonthYear(nowv, tzv),
     basicSalary |-> 0, allowances |-> 0, deductions |-> 0, netSalary |-> 0,
     status |-> "Pending"]

\* init.basicSalary ? String(init.basicSalary) : ''
AmountText(n) == IF n # 0 THEN String(n) ELSE EmptyText

\* the body of the reset effect: the draft it sets
\* the picker value without the fallback to the current month
InitYmNoFallback(ym, nowv) == ym
\* ymFromLabel(init.month) || new Date().toISOString().slice(0,7)
InitYm(ym, nowv) == IF ym # EmptyText THEN ym ELSE toISOYearMonth(nowv)
DraftOf(init, tzv, nowv) ==
    [record |-> init,
     basicInput |-> AmountText(init.basicSalary),
     allowancesInput |-> AmountText(init.allowances),
     deductionsInput |-> AmountText(init.deductions),
     monthInput |-> InitYm(ymFromLabel(init.month, tzv), nowv)]
\* a reset that blanks the basic salary text instead of deriving it
InitDraftBlankBasic(initial, tzv, nowv) ==
    [DraftOf(IF initial # Null THEN initial ELSE emptyRecord(nowv, tzv), tzv, nowv)
        EXCEPT !.basicInput = EmptyText]
InitDraft(initial, tzv, nowv) ==
    DraftOf(IF initial # Null THEN initial ELSE emptyRecord(nowv, tzv), tzv, nowv)

\* useEffect(..., [initialRecord, isOpen]) run after the props changed
Effect ==
    \E d \in { InitDraft(initialRecord', tz, now) } :
       /\ record' = d.record
       /\ basicInput' = d.basicInput
       /\ allowancesInput' = d.allowancesInput
       /\ deductionsInput' = d.deductionsInput
       /\ monthInput' = d.monthInput

\* the caller's onClose handler hides the dialog
onClose == isOpen' = FALSE

employeeMapHas(emps, id) == \E i \in 1..Len(emps) : emps[i] = id

\* a Save button that ignores the month picker
SaveDisabledNoMonth(rec, mInput) == rec.employeeId = 0
\* disabled={!record.employeeId || !monthInput}
SaveDisabled(rec, mInput) == rec.employeeId = 0 \/ mInput = EmptyText

\* the derived id also when editing
SaveIdAlwaysDerived(initial, rec) ==
    <<"p","a","y","r","o","l","l","-">> \o String(rec.employeeId) \o <<"-">>
      \o ReplaceFirst(rec.month, " ", "-")
\* the draft's own id when creating
SaveIdOfDraft(initial, rec) == IF initial # Null THEN initial.id ELSE rec.id
\* the id of the record handed to onSave
SaveId(initial, rec) ==
    IF initial # Null THEN initial.id
    ELSE <<"p","a","y","r","o","l","l","-">> \o String(rec.employeeId) \o <<"-">>
           \o ReplaceFirst(rec.month, " ", "-")

Init ==
    /\ isOpen = FALSE
    /\ initialRecord = Null
    /\ employees = EmployeeList
    /\ tz \in TzOffsets
    /\ now \in Instants
    /\ \E d \in { InitDraft(Null, tz, now) } :
          /\ record = d.record
          /\ basicInput = d.basicInput
          /\ allowancesInput = d.allowancesInput
          /\ deductionsInput = d.deductionsInput
          /\ monthInput = d.monthInput
    /\ saved = NoCall
    /\ event = "init"
    /\ convYm = EmptyText /\ convLabel = EmptyText /\ convBack = EmptyText
    /\ convPc = "idle"

(***************************************************************************)
(* The caller: props                                                       *)
(***************************************************************************)
\* the caller shows the dialog, for a new record or an existing one
Open(r) ==
    /\ ~isOpen
    /\ isOpen' = TRUE
    /\ initialRecord' = r
    /\ Effect
    /\ saved' = NoCall
    /\ event' = "open"
    /\ UNCHANGED << employees, envVars, convVars >>

\* the caller supplies a different record while the dialog is shown
Switch(r) ==
    /\ isOpen
    /\ r # initialRecord
    /\ initialRecord' = r
    /\ Effect
    /\ saved' = NoCall
    /\ event' = "switch"
    /\ UNCHANGED << isOpen, employees, envVars, convVars >>

(***************************************************************************)
(* The dialog's handlers                                                   *)
(***************************************************************************)
EmployeeChange(v) ==
    /\ isOpen
    /\ record' = [record EXCEPT !.employeeId = OrZero(parseInt(v))]
    /\ saved' = NoCall
    /\ event' = "employee"
    /\ UNCHANGED << propVars, basicInput, allowancesInput, deductionsInput,
                    monthInput, envVars, convVars >>

MonthChange(ym) ==
    /\ isOpen
    /\ monthInput' = ym
    /\ record' = [record EXCEPT !.month = labelFromYm(ym, tz, now)]
    /\ saved' = NoCall
    /\ event' = "month"
    /\ UNCHANGED << propVars, basicInput, allowancesInput, deductionsInput,
                    envVars, convVars >>

\* val === '' ? 0 : parseFloat(val) || 0
AmountOf(val) == IF val = EmptyText THEN 0 ELSE OrZero(parseFloat(val))

BasicChange(val) ==
    /\ isOpen
    /\ basicInput' = val
    /\ LET basic == AmountOf(val)
       IN record' = [record EXCEPT
                       !.basicSalary = basic,
                       !.netSalary = recomputeNet(basic, record.allowances, record.deductions)]
    /\ saved' = NoCall
    /\ event' = "basic"
    /\ UNCHANGED << propVars, allowancesInput, deductionsInput, monthInput,
                    envVars, convVars >>

AllowancesChange(val) ==
    /\ isOpen
    /\ allowancesInput' = val
    /\ LET allowances == AmountOf(val)
       IN record' = [record EXCEPT
                       !.allowances = allowances,
                       !.netSalary = recomputeNet(record.basicSalary, allowances, record.deductions)]
    /\ saved' = NoCall
    /\ event' = "allowances"
    /\ UNCHANGED << propVars, basicInput, deductionsInput, monthInput,
                    envVars, convVars >>

DeductionsChange(val) ==
    /\ isOpen
    /\ deductionsInput' = val
    /\ LET deductions == AmountOf(val)
       IN record' = [record EXCEPT
                       !.deductions = deductions,
                       !.netSalary = recomputeNet(record.basicSalary, record.allowances, deductions)]
    /\ saved' = NoCall
    /\ event' = "deductions"
    /\ UNCHANGED << propVars, basicInput, allowancesInput, monthInput,
                    envVars, convVars >>

StatusChange(v) ==
    /\ isOpen
    /\ record' = [record EXCEPT !.status = v]
    /\ saved' = NoCall
    /\ event' = "status"
    /\ UNCHANGED << propVars, basicInput, allowancesInput, deductionsInput,
                    monthInput, envVars, convVars >>

\* a Cancel button wired to the save path
CancelSaving ==
    /\ isOpen
    /\ onClose
    /\ UNCHANGED << initialRecord, employees >>
    /\ Effect
    /\ saved' = [record EXCEPT !.id = SaveId(initialRecord, record)]
    /\ event' = "cancel"
    /\ UNCHANGED << envVars, convVars >>

\* the Cancel button
Cancel ==
    /\ isOpen
    /\ onClose
    /\ UNCHANGED << initialRecord, employees >>
    /\ Effect
    /\ saved' = NoCall
    /\ event' = "cancel"
    /\ UNCHANGED << envVars, convVars >>

\* the X button of the header
CloseX ==
    /\ isOpen
    /\ onClose
    /\ UNCHANGED << initialRecord, employees >>
    /\ Effect
    /\ saved' = NoCall
    /\ event' = "closeX"
    /\ UNCHANGED << envVars, convVars >>

\* a click on the Save button; a disabled button receives no click
Save ==
    /\ isOpen
    /\ ~SaveDisabled(record, monthInput)
    /\ event' = "save"
    /\ IF record.employeeId = 0 \/ ~employeeMapHas(employees, record.employeeId)
       THEN /\ saved' = NoCall
            /\ UNCHANGED << propVars, draftVars >>
       ELSE /\ saved' = [record EXCEPT !.id = SaveId(initialRecord, record)]
            /\ onClose
            /\ UNCHANGED << initialRecord, employees >>
            /\ Effect
    /\ UNCHANGED << envVars, convVars >>

Next ==
    \/ \E r \in InitialRecords \cup {Null} : Open(r)
    \/ \E r \in InitialRecords \cup {Null} : Switch(r)
    \/ \E i \in 1..Len(employees) : EmployeeChange(String(employees[i]))
    \/ EmployeeChange(EmptyText)
    \/ \E ym \in PickerValues : MonthChange(ym)
    \/ \E val \in BasicTexts : BasicChange(val)
    \/ \E val \in AllowancesTexts : AllowancesChange(val)
    \/ \E val \in DeductionsTexts : DeductionsChange(val)
    \/ \E v \in StatusValues : StatusChange(v)
    \/ Cancel
    \/ CloseX
    \/ Save

Spec == Init /\ [][Next]_vars

(***************************************************************************)
(* The two conversions applied in turn to a month-picker value             *)
(***************************************************************************)
\* the value of <input type="month"> for year y and month m
PickerValue(y, m) == String(y) \o <<"-">> \o PadStart2(String(m))
WellFormedYms == { PickerValue(y, m) : y \in Years, m \in 1..12 }

ConvPick(ym) ==
    /\ convPc = "idle"
    /\ convYm' = ym
    /\ convPc' = "picked"
    /\ UNCHANGED << propVars, draftVars, saved, event, envVars, convLabel, convBack >>

ConvLabel ==
    /\ convPc = "picked"
    /\ convLabel' = labelFromYm(convYm, tz, now)
    /\ convPc' = "labelled"
    /\ UNCHANGED << propVars, draftVars, saved, event, envVars, convYm, convBack >>

ConvBack ==
    /\ convPc = "labelled"
    /\ convBack' = ymFromLabel(convLabel, tz)
    /\ convPc' = "done"
    /\ UNCHANGED << propVars, draftVars, saved, event, envVars, convYm, convLabel >>

NextConv ==
    \/ \E ym \in WellFormedYms : ConvPick(ym)
    \/ ConvLabel
    \/ ConvBack

SpecConv == Init /\ [][NextConv]_vars

(***************************************************************************)
(* Properties                                                              *)
(***************************************************************************)
Max0(v) == IF v > 0 THEN v ELSE 0
SaveCalled == saved # NoCall
DerivedId(employeeId, month) ==
    <<"p","a","y","r","o","l","l","-">> \o String(employeeId) \o <<"-">>
      \o ReplaceFirst(month, " ", "-")
\* 'payroll-new-<timestamp>'
IsPlaceholder(id) ==
    /\ Len(id) > 12
    /\ SubSeq(id, 1, 12) = <<"p","a","y","r","o","l","l","-","n","e","w","-">>
    /\ \A i \in 13..Len(id) : IsDigit(id[i])
Unparseable(label) == DateParse(label, tz) = NaN
ResetEvents == { "open", "switch" }
AmountEvents == { "basic", "allowances", "deductions" }
NotANumber(text) == text = EmptyText \/ ~IsDigit(Head(text))

\* C1: the record passed to the save callback has
\* netSalary = max(0, basicSalary + allowances - deductions).
C1_SavedNetIsDerived ==
    SaveCalled =>
        saved.netSalary = Max0(saved.basicSalary + saved.allowances - saved.deductions)

\* C2: a step invokes the save callback only from a state where the dialog
\* is shown, the draft's employee id is non-zero and is the id of an
\* employee of the list, and the month picker is not empty.
C2_SaveOnlyWithEmployeeAndMonth ==
    [][SaveCalled' =>
          /\ isOpen
          /\ record.employeeId # 0
          /\ \E i \in 1..Len(employees) : employees[i] = record.employeeId
          /\ monthInput # EmptyText
          /\ saved'.employeeId = record.employeeId]_vars
\* Save was clicked with an employee that is not in the list: no call
C2_Witness ==
    /\ event = "save"
    /\ ~SaveCalled
    /\ isOpen
    /\ record.employeeId # 0

\* C3: in edit mode the saved record has the id of the supplied record.
C3_EditKeepsId ==
    (SaveCalled /\ initialRecord # Null) => saved.id = initialRecord.id
\* saved in edit mode after the employee and the month were changed
C3_Witness ==
    /\ SaveCalled
    /\ initialRecord # Null
    /\ saved.employeeId # initialRecord.employeeId
    /\ saved.month # initialRecord.month

\* C4: in create mode the saved id is 'payroll-<employeeId>-<month label
\* with its first blank turned into a dash>', computed from the saved
\* employee id and month label alone, and is neither the draft's placeholder
\* id nor of the placeholder's form.
C4_CreateIdDerived ==
    [][(SaveCalled' /\ initialRecord = Null) =>
          /\ saved'.id = DerivedId(saved'.employeeId, saved'.month)
          /\ saved'.id # record.id
          /\ IsPlaceholder(record.id)
          /\ ~IsPlaceholder(saved'.id)]_vars
C4_Witness ==
    /\ SaveCalled
    /\ initialRecord = Null
    /\ event = "save"

C6_CancelNeverSaves ==
    [][/\ event' \in {"cancel", "closeX"} =>
            /\ ~SaveCalled'
            /\ ~isOpen'
            /\ initialRecord' = initialRecord
            /\ record' = (IF initialRecord # Null THEN initialRecord
                          ELSE emptyRecord(now, tz))
            /\ basicInput' = AmountText(record'.basicSalary)
            /\ allowancesInput' = AmountText(record'.allowances)
            /\ deductionsInput' = AmountText(record'.deductions)
            /\ monthInput' = (IF Unparseable(record'.month) THEN toISOYearMonth(now)
                              ELSE ymFromLabel(record'.month, tz))
       /\ SaveCalled' => event' = "save"]_vars
C6_Witness ==
    /\ event = "cancel"
    /\ ~isOpen
    /\ ~SaveCalled

\* C7: labelFromYm then ymFromLabel gives back the well-formed year-month
\* value, at every timezone offset.
C7_RoundTrip == convPc = "done" => convBack = convYm

\* C8: after a change of one of the three amount inputs the draft's
\* netSalary is max(0, basicSalary + allowances - deductions) of its
\* current amounts, a blank or non-numeric text counts as 0, and the id,
\* employee id, month and status are as before.
C8_AmountChangeRecomputesNet ==
    [][event' \in AmountEvents =>
          /\ record'.netSalary =
                Max0(record'.basicSalary + record'.allowances - record'.deductions)
          /\ (event' = "basic" /\ NotANumber(basicInput')) => record'.basicSalary = 0
          /\ (event' = "allowances" /\ NotANumber(allowancesInput'))
                => record'.allowances = 0
          /\ (event' = "deductions" /\ NotANumber(deductionsInput'))
                => record'.deductions = 0
          /\ record'.id = record.id
          /\ record'.employeeId = record.employeeId
          /\ record'.month = record.month
          /\ record'.status = record.status]_vars
\* the deductions were typed and exceed basic salary plus allowances
C8_Witness ==
    /\ event = "deductions"
    /\ record.basicSalary + record.allowances - record.deductions < 0
    /\ record.basicSalary > 0
    /\ record.allowances > 0
    /\ record.netSalary = 0

\* C9, as stated: after a reset from an existing record whose month label
\* is no date, the reverse conversion gives the empty value and the month
\* picker is empty.
C9_PickerLeftEmpty ==
    (event \in ResetEvents /\ initialRecord # Null /\ Unparseable(initialRecord.month)) =>
        /\ ymFromLabel(initialRecord.month, tz) = EmptyText
        /\ monthInput = EmptyText
\* C9, amended: after a reset from an existing record whose month label is
\* no date, the reverse conversion gives the empty value and the month picker
\* holds the current year-month in UTC, never the empty value; the draft
\* keeps the record's label.
C9_PickerFallsBackToCurrentMonth ==
    (event \in ResetEvents /\ initialRecord # Null /\ Unparseable(initialRecord.month)) =>
        /\ ymFromLabel(initialRecord.month, tz) = EmptyText
        /\ monthInput = toISOYearMonth(now)
        /\ monthInput # EmptyText
        /\ record.month = initialRecord.month
C9_Witness ==
    /\ event = "open"
    /\ initialRecord # Null
    /\ Unparseable(initialRecord.month)
    /\ monthInput = <<"2","0","2","5","-","0","9">>

\* C10: in every state in which Save can invoke the callback, the draft's
\* month label is the label of the month picker's value.
C10_SavedMonthIsPickerMonth ==
    (/\ isOpen
     /\ ~SaveDisabled(record, monthInput)
     /\ employeeMapHas(employees, record.employeeId))
        => record.month = labelFromYm(monthInput, tz, now)
=============================================================================
